---- MODULE Spec2Model ----
(***************************************************************************)
(* Model of src/app.py: the Pipe-Spec Assistant, a Streamlit script that   *)
(* resolves its configuration, constructs the Pinecone and OpenAI clients, *)
(* and answers a question with ask(): embedding call, vector search call,  *)
(* prompt assembly, chat-completion call.                                  *)
(*                                                                         *)
(* Text is modelled as a sequence of characters.  A run of characters that *)
(* holds no space and no newline may be abbreviated to a single element    *)
(* (a word such as "### Context"): every operation on text in app.py       *)
(* (str.strip, str.join, textwrap.dedent, int) only looks at spaces,       *)
(* newlines, sign and digit characters.                                    *)
(***************************************************************************)
EXTENDS Integers, Sequences, FiniteSets, TLC

(***************************************************************************)
(* Bounds of the model.                                                    *)
(***************************************************************************)
\* longest question typed into the text area
MaxQLen == 3
\* largest number of matches the index can return for one query
MaxMatches == 2

(***************************************************************************)
(* Python values: None, str, int, float (a float is kept in tenths).       *)
(***************************************************************************)
None == [t |-> "none"]
Str(s) == [t |-> "str", s |-> s]
Int_(n) == [t |-> "int", n |-> n]
Float(tenths) == [t |-> "float", tenths |-> tenths]

\* Python truthiness, as used by `not PINECONE_API_KEY` (app.py line 18)
Truthy(v) ==
  CASE v.t = "none" -> FALSE
    [] v.t = "str" -> v.s # <<>>
    [] v.t = "int" -> v.n # 0
    [] v.t = "float" -> v.tenths # 0

(***************************************************************************)
(* Text helpers.                                                           *)
(***************************************************************************)
SP == " "
NL == "\n"
\* the characters str.strip() removes, among those of the model
Whitespace == {SP, NL}

RECURSIVE LStrip(_)
LStrip(s) ==
  IF s # <<>> /\ Head(s) \in Whitespace THEN LStrip(Tail(s)) ELSE s

RECURSIVE RStrip(_)
RStrip(s) ==
  IF s # <<>> /\ s[Len(s)] \in Whitespace
  THEN RStrip(SubSeq(s, 1, Len(s) - 1))
  ELSE s

\* str.strip()
Strip(s) == RStrip(LStrip(s))

\* sep.join(parts)
RECURSIVE Join(_, _)
Join(parts, sep) ==
  IF parts = <<>> THEN <<>>
  ELSE IF Len(parts) = 1 THEN parts[1]
  ELSE parts[1] \o sep \o Join(Tail(parts), sep)

\* text.split("\n"): the lines of a text
RECURSIVE SplitLines(_)
SplitLines(s) ==
  IF \A i \in 1..Len(s) : s[i] # NL THEN <<s>>
  ELSE LET k == CHOOSE i \in 1..Len(s) :
                  s[i] = NL /\ \A j \in 1..(i - 1) : s[j] # NL
       IN <<SubSeq(s, 1, k - 1)>> \o SplitLines(SubSeq(s, k + 1, Len(s)))

\* the leading run of spaces of a line
RECURSIVE LeadingSpaces(_)
LeadingSpaces(line) ==
  IF line # <<>> /\ Head(line) = SP
  THEN <<SP>> \o LeadingSpaces(Tail(line))
  ELSE <<>>

Min(S) == CHOOSE x \in S : \A y \in S : x <= y

(***************************************************************************)
(* textwrap.dedent (app.py line 54): lines made only of spaces become      *)
(* empty, then the longest run of leading spaces common to all remaining   *)
(* non-empty lines is removed from the start of every line.                *)
(***************************************************************************)
BlankLine(line) == \A i \in 1..Len(line) : line[i] = SP

Dedent(text) ==
  LET raw == SplitLines(text)
      lines == [i \in 1..Len(raw) |-> IF BlankLine(raw[i]) THEN <<>> ELSE raw[i]]
      indents == {Len(LeadingSpaces(lines[i])) : i \in {j \in 1..Len(lines) : lines[j] # <<>>}}
      margin == IF indents = {} THEN 0 ELSE Min(indents)
      cut == [i \in 1..Len(lines) |->
                IF lines[i] = <<>> THEN <<>>
                ELSE SubSeq(lines[i], margin + 1, Len(lines[i]))]
  IN Join(cut, <<NL>>)

(***************************************************************************)
(* int(x) (app.py line 16).  The result is [ok |-> TRUE, n |-> value], or  *)
(* [ok |-> FALSE] where Python raises ValueError or TypeError.             *)
(***************************************************************************)
Digits == {"0", "1", "2", "3", "4", "5", "6", "7", "8", "9"}
DigitVal(c) ==
  CASE c = "0" -> 0 [] c = "1" -> 1 [] c = "2" -> 2 [] c = "3" -> 3
    [] c = "4" -> 4 [] c = "5" -> 5 [] c = "6" -> 6 [] c = "7" -> 7
    [] c = "8" -> 8 [] c = "9" -> 9

RECURSIVE DigitsValue(_, _)
DigitsValue(s, acc) ==
  IF s = <<>> THEN acc ELSE DigitsValue(Tail(s), 10 * acc + DigitVal(Head(s)))

\* int(str): surrounding whitespace is ignored, then an optional sign and
\* one or more decimal digits
ParseInt(s) ==
  LET body == Strip(s)
      signed == body # <<>> /\ Head(body) \in {"-", "+"}
      digits == IF signed THEN Tail(body) ELSE body
  IN IF digits # <<>> /\ \A i \in 1..Len(digits) : digits[i] \in Digits
     THEN [ok |-> TRUE,
           n |-> IF signed /\ Head(body) = "-"
                 THEN 0 - DigitsValue(digits, 0)
                 ELSE DigitsValue(digits, 0)]
     ELSE [ok |-> FALSE]

\* int(float) truncates toward zero
TruncTenths(tenths) ==
  IF tenths >= 0 THEN tenths \div 10 ELSE 0 - ((0 - tenths) \div 10)

PyInt(v) ==
  CASE v.t = "int" -> [ok |-> TRUE, n |-> v.n]
    [] v.t = "float" -> [ok |-> TRUE, n |-> TruncTenths(v.tenths)]
    [] v.t = "str" -> ParseInt(v.s)
    [] v.t = "none" -> [ok |-> FALSE]

(***************************************************************************)
(* Configuration (app.py lines 11-16).  st.secrets and os.environ are      *)
(* mappings from some of the keys to values.                               *)
(***************************************************************************)
Keys == {"PINECONE_API_KEY", "OPENAI_API_KEY", "INDEX_NAME", "NAMESPACE",
         "EMBED_MODEL", "TOP_K"}

\* the default of TOP_K (app.py line 16)
DEFAULT_TOP_K == 20

\* the second argument of os.getenv for each key
GetenvDefault(key) ==
  CASE key = "INDEX_NAME" -> Str(<<"aquestia">>)
    [] key = "NAMESPACE" -> Str(<<"v1">>)
    [] key = "EMBED_MODEL" -> Str(<<"text-embedding-3-large">>)
    [] key = "TOP_K" -> Int_(DEFAULT_TOP_K)
    [] OTHER -> None

\* os.getenv(key, default)
Getenv(env, key, default) == IF key \in DOMAIN env THEN env[key] ELSE default

\* st.secrets.get(key, default)
SecretsGet(sec, key, default) == IF key \in DOMAIN sec THEN sec[key] ELSE default

\* mutant of Lookup: the environment is consulted before the secret store
LookupEnvFirst(sec, env, key) ==
  Getenv(env, key, SecretsGet(sec, key, GetenvDefault(key)))

\* st.secrets.get(KEY, os.getenv(KEY, <default>))
Lookup(sec, env, key) == SecretsGet(sec, key, Getenv(env, key, GetenvDefault(key)))

\* mutant of KeysMissing: the script stops only when both keys are missing
KeysMissingBoth(c) == ~Truthy(c.PINECONE_API_KEY) /\ ~Truthy(c.OPENAI_API_KEY)

\* `not PINECONE_API_KEY or not OPENAI_API_KEY` (app.py line 18)
KeysMissing(c) == ~Truthy(c.PINECONE_API_KEY) \/ ~Truthy(c.OPENAI_API_KEY)

(***************************************************************************)
(* Prompt assembly (app.py lines 50-66).                                   *)
(***************************************************************************)
\* the separator of line 52: "\n\n---\n\n"
Separator == <<NL, NL, "---", NL, NL>>

\* the indentation of the template lines (app.py lines 55-65)
IndentWidth == 8
\* the indentation before the closing quotes (app.py line 66)
ClosingIndentWidth == 4

Spaces(n) == [i \in 1..n |-> SP]
Indent == Spaces(IndentWidth)

\* m.metadata.get("text", "") for each match; FALSE stands for the
\* AttributeError of a match whose metadata is None
HasMetadata(m) == m.metadata.t = "dict"
MatchText(m) ==
  IF "text" \in DOMAIN m.metadata.d THEN m.metadata.d.text ELSE <<>>
\* mutant of ContextChunks: matches without a text field are left out
ContextChunksSkipMissing(matches) ==
  LET kept == SelectSeq(matches, LAMBDA m : "text" \in DOMAIN m.metadata.d)
  IN [i \in 1..Len(kept) |-> kept[i].metadata.d.text]

ContextChunks(matches) == [i \in 1..Len(matches) |-> MatchText(matches[i])]

\* "\n\n---\n\n".join(context_chunks)
ContextText(chunks) == Join(chunks, Separator)

\* the f-string of lines 54-66, before textwrap.dedent
Template(context_text, question) ==
     <<NL>>
  \o Indent \o <<"You are Pipe-Spec Assistant.", NL>>
  \o Indent \o <<"Answer the user's question **only** with information in the context.", NL>>
  \o Indent \o <<"Try to give the best answer possible. If you really don't know say you don't know, but still try to provide some value.", NL>>
  \o <<NL>>
  \o Indent \o <<"### Context", NL>>
  \o Indent \o context_text \o <<NL>>
  \o <<NL>>
  \o Indent \o <<"### Question", NL>>
  \o Indent \o question \o <<NL>>
  \o <<NL>>
  \o Indent \o <<"### Answer", NL>>
  \o Spaces(ClosingIndentWidth)

\* mutant of BuildPrompt: the Context section is left out when there is no
\* context
BuildPromptSkipEmpty(context_text, question) ==
  IF context_text # <<>>
  THEN Dedent(Template(context_text, question))
  ELSE Dedent(   <<NL>>
              \o Indent \o <<"You are Pipe-Spec Assistant.", NL>>
              \o <<NL>>
              \o Indent \o <<"### Question", NL>>
              \o Indent \o question \o <<NL>>
              \o <<NL>>
              \o Indent \o <<"### Answer", NL>>
              \o Spaces(ClosingIndentWidth))

BuildPrompt(context_text, question) == Dedent(Template(context_text, question))

(***************************************************************************)
(* Outbound requests (app.py lines 37-40, 43-48, 69-73).                   *)
(***************************************************************************)
EmbedRequest(c, question) ==
  [kind |-> "embed", model |-> c.EMBED_MODEL, input |-> question]

\* mutant of QueryRequest: the query is sent with a fixed vector
QueryRequestStaleVector(c, q_vec) ==
  [kind |-> "search", vector |-> "vecA", top_k |-> c.TOP_K.n,
   namespace |-> c.NAMESPACE, include_metadata |-> TRUE]

\* mutant of QueryRequest: one match more than TOP_K is requested
QueryRequestOneMore(c, q_vec) ==
  [kind |-> "search", vector |-> q_vec, top_k |-> c.TOP_K.n + 1,
   namespace |-> c.NAMESPACE, include_metadata |-> TRUE]

QueryRequest(c, q_vec) ==
  [kind |-> "search", vector |-> q_vec, top_k |-> c.TOP_K.n,
   namespace |-> c.NAMESPACE, include_metadata |-> TRUE]

ChatRequest(prompt_text) ==
  [kind |-> "generate", model |-> "gpt-4o",
   messages |-> <<[role |-> "user", content |-> prompt_text]>>, temperature |-> 0]

(***************************************************************************)
(* What the providers can answer.  A response is a raised error or a       *)
(* payload; a payload may lack the element the code indexes.               *)
(***************************************************************************)
Vectors == {"vecA", "vecB"}
ProviderError == [kind |-> "response", ok |-> FALSE, error |-> "APIError"]

EmbedResponses ==
  {ProviderError} \cup
  {[kind |-> "response", ok |-> TRUE, data |-> d] :
     d \in {<<>>} \cup {<<[embedding |-> v]>> : v \in Vectors}}

Dict(d) == [t |-> "dict", d |-> d]
Metadatas == {Dict([text |-> <<"x">>]), Dict([text |-> <<"y">>]),
              Dict([source |-> <<"doc">>]), None}
Matches == {[metadata |-> md] : md \in Metadatas}

SeqsUpTo(S, n) == UNION {[1..k -> S] : k \in 0..n}

\* the index answers a query for top_k >= 1 with at most top_k matches and
\* rejects any other top_k
SearchResponses(req) ==
  {ProviderError} \cup
  (IF req.top_k >= 1
   THEN {[kind |-> "response", ok |-> TRUE, matches |-> ms] :
           ms \in SeqsUpTo(Matches, IF req.top_k < MaxMatches THEN req.top_k ELSE MaxMatches)}
   ELSE {})

Contents == {None, Str(<<SP, "The answer.", NL>>)}
ChatResponses ==
  {ProviderError} \cup
  {[kind |-> "response", ok |-> TRUE, choices |-> cs] :
     cs \in {<<>>} \cup {<<[message |-> [content |-> c]]>> : c \in Contents}}

\* the exception classes `except Exception` catches (app.py line 98)
ExceptionClasses == {"APIError", "IndexError", "AttributeError"}

(***************************************************************************)
(* State.                                                                  *)
(***************************************************************************)
VARIABLES
  secrets,        \* st.secrets
  environ,        \* os.environ
  cfg,            \* the module-level names of lines 11-16
  clients,        \* which of pc, index, client (lines 25-27) exist
  pc,             \* where the script is
  clicked,        \* st.button("Ask") of the current script run
  question,       \* the text area's value in the current script run
  q_vec,          \* ask(): q_vec
  res,            \* ask(): res.matches
  context_chunks, \* ask(): context_chunks
  context_text,   \* ask(): context_text
  prompt,         \* ask(): prompt
  net,            \* requests sent and responses received by the current run
  ui,             \* what the page shows besides the form
  firstRun,       \* this is the script run of the first page load
  everFailed      \* some earlier call of ask() raised

vars == <<secrets, environ, cfg, clients, pc, clicked, question, q_vec, res,
          context_chunks, context_text, prompt, net, ui, firstRun, everFailed>>

Unset == [PINECONE_API_KEY |-> None, OPENAI_API_KEY |-> None, INDEX_NAME |-> None,
          NAMESPACE |-> None, EMBED_MODEL |-> None, TOP_K |-> None]

NoOutput == [kind |-> "none"]

(***************************************************************************)
(* The configuration sources the model starts from.                        *)
(***************************************************************************)
Absent == [t |-> "absent"]

SecretChoices(key) ==
  CASE key \in {"PINECONE_API_KEY", "OPENAI_API_KEY"} ->
         {Absent, Str(<<>>), Str(<<"sk-secret">>)}
    [] key = "TOP_K" ->
         {Absent, Int_(1), Int_(0), Str(<<"2">>), Float(25)}
    [] OTHER -> {Absent, Str(<<"from-secrets">>)}

EnvChoices(key) ==
  CASE key \in {"PINECONE_API_KEY", "OPENAI_API_KEY"} ->
         {Absent, Str(<<"sk-env">>)}
    [] key = "TOP_K" ->
         {Absent, Str(<<"3">>), Str(<<"0">>), Str(<<"-", "1">>), Str(<<"x">>),
          Str(<<SP, "1", "2", NL>>)}
    [] OTHER -> {Absent, Str(<<"from-env">>)}

\* the mapping that holds the keys a choice does not leave absent
Mapping(choice) == [k \in {x \in Keys : choice[x] # Absent} |-> choice[k]]

AllSecrets == {Mapping(ch) : ch \in {f \in [Keys -> UNION {SecretChoices(k) : k \in Keys}] :
                                       \A k \in Keys : f[k] \in SecretChoices(k)}}
AllEnvirons == {Mapping(ch) : ch \in {f \in [Keys -> UNION {EnvChoices(k) : k \in Keys}] :
                                        \A k \in Keys : f[k] \in EnvChoices(k)}}

\* a few deployments, for the runs that go on to answer questions
SampleSources ==
  { \* everything in the secret store, TOP_K below the index size
    [sec |-> [PINECONE_API_KEY |-> Str(<<"sk-secret">>), OPENAI_API_KEY |-> Str(<<"sk-secret">>),
              TOP_K |-> Int_(1)],
     env |-> [NAMESPACE |-> Str(<<"from-env">>)]],
    \* everything in the environment
    [sec |-> <<>>,
     env |-> [PINECONE_API_KEY |-> Str(<<"sk-env">>), OPENAI_API_KEY |-> Str(<<"sk-env">>),
              TOP_K |-> Str(<<"2">>)]],
    \* the defaults, but for the keys
    [sec |-> [PINECONE_API_KEY |-> Str(<<"sk-secret">>)],
     env |-> [OPENAI_API_KEY |-> Str(<<"sk-env">>)]],
    \* TOP_K=0 in the environment
    [sec |-> [OPENAI_API_KEY |-> Str(<<"sk-secret">>)],
     env |-> [PINECONE_API_KEY |-> Str(<<"sk-env">>), TOP_K |-> Str(<<"0">>)]],
    \* TOP_K is no number
    [sec |-> [PINECONE_API_KEY |-> Str(<<"sk-secret">>), OPENAI_API_KEY |-> Str(<<"sk-secret">>)],
     env |-> [TOP_K |-> Str(<<"x">>)]],
    \* no OpenAI key
    [sec |-> [PINECONE_API_KEY |-> Str(<<"sk-secret">>)],
     env |-> <<>>],
    \* an empty Pinecone key in the secret store hides the one in the environment
    [sec |-> [PINECONE_API_KEY |-> Str(<<>>), OPENAI_API_KEY |-> Str(<<"sk-secret">>)],
     env |-> [PINECONE_API_KEY |-> Str(<<"sk-env">>)]],
    \* no Pinecone key, and TOP_K is no number
    [sec |-> [OPENAI_API_KEY |-> Str(<<"sk-secret">>), TOP_K |-> Str(<<"x">>)],
     env |-> <<>>],
    \* no key at all
    [sec |-> <<>>, env |-> <<>>] }

InitRest ==
  /\ cfg = Unset
  /\ clients = {}
  /\ pc = "start"
  /\ clicked = FALSE
  /\ question = <<>>
  /\ q_vec = None
  /\ res = None
  /\ context_chunks = None
  /\ context_text = None
  /\ prompt = None
  /\ net = <<>>
  /\ ui = NoOutput
  /\ firstRun = TRUE
  /\ everFailed = FALSE

Init ==
  /\ \E src \in SampleSources : secrets = src.sec /\ environ = src.env
  /\ InitRest

InitConfig ==
  /\ secrets \in AllSecrets
  /\ environ \in AllEnvirons
  /\ InitRest

(***************************************************************************)
(* Start of the script (app.py lines 11-27).                               *)
(***************************************************************************)
\* lines 11-16: TOP_K is assigned last, and int() may raise
LoadConfig ==
  /\ pc = "start"
  /\ LET top == PyInt(Lookup(secrets, environ, "TOP_K"))
         named == [k \in Keys \ {"TOP_K"} |-> Lookup(secrets, environ, k)]
     IN IF top.ok
        THEN /\ cfg' = [k \in Keys |-> IF k = "TOP_K" THEN Int_(top.n) ELSE named[k]]
             /\ pc' = "check"
             /\ ui' = ui
        ELSE /\ cfg' = [k \in Keys |-> IF k = "TOP_K" THEN None ELSE named[k]]
             /\ pc' = "crashed"
             /\ ui' = [kind |-> "exception", msg |-> "ValueError"]
  /\ UNCHANGED <<secrets, environ, clients, clicked, question, q_vec, res,
                 context_chunks, context_text, prompt, net, firstRun, everFailed>>

\* lines 18-20: st.error and st.stop()
CheckKeys ==
  /\ pc = "check"
  /\ IF KeysMissing(cfg)
     THEN pc' = "halted" /\ ui' = [kind |-> "configerror"]
     ELSE pc' = "clients" /\ ui' = ui
  /\ UNCHANGED <<secrets, environ, cfg, clients, clicked, question, q_vec, res,
                 context_chunks, context_text, prompt, net, firstRun, everFailed>>

\* lines 25-27, then main() is entered
ConstructClients ==
  /\ pc = "clients"
  /\ clients' = {"pc", "index", "client"}
  /\ pc' = "main"
  /\ UNCHANGED <<secrets, environ, cfg, clicked, question, q_vec, res,
                 context_chunks, context_text, prompt, net, ui, firstRun, everFailed>>

(***************************************************************************)
(* main() (app.py lines 90-99).                                            *)
(***************************************************************************)
QChars == {SP, NL, "a"}
Questions == SeqsUpTo(QChars, MaxQLen)

\* mutant of ShouldAsk: the question is tested without strip()
ShouldAskNoStrip(button, text) == button /\ text # <<>>

\* `st.button("Ask") and question.strip()` (line 92)
ShouldAsk(button, text) == button /\ Strip(text) # <<>>

\* mutant of ExceptHandler: only the provider's own error class is caught
ExceptHandlerNarrow(exc) ==
  IF exc = "APIError"
  THEN [pc |-> "done", ui |-> [kind |-> "error", msg |-> exc]]
  ELSE [pc |-> "crashed", ui |-> [kind |-> "exception", msg |-> exc]]

\* `except Exception as e: st.error(...)` (lines 98-99): where the script
\* goes and what the page shows when ask() raises exc
ExceptHandler(exc) ==
  IF exc \in ExceptionClasses
  THEN [pc |-> "done", ui |-> [kind |-> "error", msg |-> exc]]
  ELSE [pc |-> "crashed", ui |-> [kind |-> "exception", msg |-> exc]]

\* ask() raises exc after the traffic `traffic`
Raise(exc, traffic) ==
  /\ net' = traffic
  /\ pc' = ExceptHandler(exc).pc
  /\ ui' = ExceptHandler(exc).ui
  /\ everFailed' = TRUE

\* the widget values a script run can see: the first run of a session
\* finds the button unclicked and the text area empty
WidgetValues(button, text) == firstRun => (~button /\ text = <<>>)

\* line 92 is false: nothing is drawn below the form and the script ends
SubmitIgnored(button, text) ==
  /\ pc = "main"
  /\ WidgetValues(button, text)
  /\ ~ShouldAsk(button, text)
  /\ clicked' = button
  /\ question' = text
  /\ pc' = "done"
  /\ UNCHANGED <<secrets, environ, cfg, clients, q_vec, res, context_chunks,
                 context_text, prompt, net, ui, firstRun, everFailed>>

\* line 92 is true: ask(question) sends the embedding request (lines 37-40)
SubmitAsk(button, text) ==
  /\ pc = "main"
  /\ WidgetValues(button, text)
  /\ ShouldAsk(button, text)
  /\ clicked' = button
  /\ question' = text
  /\ net' = <<EmbedRequest(cfg, text)>>
  /\ pc' = "embedding"
  /\ UNCHANGED <<secrets, environ, cfg, clients, q_vec, res, context_chunks,
                 context_text, prompt, ui, firstRun, everFailed>>

\* the embedding call returns or raises; on success line 40 takes
\* data[0].embedding and lines 43-48 send the query
EmbedReturns(resp) ==
  /\ pc = "embedding"
  /\ IF ~resp.ok
     THEN /\ Raise(resp.error, Append(net, resp))
          /\ UNCHANGED q_vec
     ELSE IF resp.data = <<>>
     THEN /\ Raise("IndexError", Append(net, resp))
          /\ UNCHANGED q_vec
     ELSE /\ q_vec' = resp.data[1].embedding
          /\ net' = net \o <<resp, QueryRequest(cfg, resp.data[1].embedding)>>
          /\ pc' = "searching"
          /\ UNCHANGED <<ui, everFailed>>
  /\ UNCHANGED <<secrets, environ, cfg, clients, clicked, question, res,
                 context_chunks, context_text, prompt, firstRun>>

\* the query returns or raises; on success lines 51-66 build the prompt and
\* lines 69-73 send the chat request
SearchReturns(resp) ==
  /\ pc = "searching"
  /\ IF ~resp.ok
     THEN /\ Raise(resp.error, Append(net, resp))
          /\ UNCHANGED <<res, context_chunks, context_text, prompt>>
     ELSE IF \E i \in 1..Len(resp.matches) : ~HasMetadata(resp.matches[i])
     THEN /\ Raise("AttributeError", Append(net, resp))
          /\ res' = resp.matches
          /\ UNCHANGED <<context_chunks, context_text, prompt>>
     ELSE LET chunks == ContextChunks(resp.matches)
              text == ContextText(chunks)
              p == BuildPrompt(text, question)
          IN /\ res' = resp.matches
             /\ context_chunks' = chunks
             /\ context_text' = text
             /\ prompt' = p
             /\ net' = net \o <<resp, ChatRequest(p)>>
             /\ pc' = "generating"
             /\ UNCHANGED <<ui, everFailed>>
  /\ UNCHANGED <<secrets, environ, cfg, clients, clicked, question, q_vec, firstRun>>

\* the chat call returns or raises; line 75 strips the content and lines
\* 96-97 show it
ChatReturns(resp) ==
  /\ pc = "generating"
  /\ IF ~resp.ok
     THEN Raise(resp.error, Append(net, resp))
     ELSE IF resp.choices = <<>>
     THEN Raise("IndexError", Append(net, resp))
     ELSE IF resp.choices[1].message.content.t # "str"
     THEN Raise("AttributeError", Append(net, resp))
     ELSE /\ net' = Append(net, resp)
          /\ ui' = [kind |-> "answer", text |-> Strip(resp.choices[1].message.content.s)]
          /\ pc' = "done"
          /\ UNCHANGED everFailed
  /\ UNCHANGED <<secrets, environ, cfg, clients, clicked, question, q_vec, res,
                 context_chunks, context_text, prompt, firstRun>>

\* an interaction with the page (or a reload) makes Streamlit run the script
\* again from line 1: the module-level names, the locals and the page's
\* elements of the previous run are gone
Rerun ==
  /\ pc \in {"done", "halted", "crashed"}
  /\ pc' = "start"
  /\ cfg' = Unset
  /\ clients' = {}
  /\ clicked' = FALSE
  /\ question' = <<>>
  /\ q_vec' = None /\ res' = None /\ context_chunks' = None
  /\ context_text' = None /\ prompt' = None
  /\ net' = <<>>
  /\ ui' = NoOutput
  /\ firstRun' = FALSE
  /\ UNCHANGED <<secrets, environ, everFailed>>

Next ==
  \/ LoadConfig
  \/ CheckKeys
  \/ ConstructClients
  \/ \E b \in BOOLEAN, q \in Questions : SubmitIgnored(b, q)
  \/ \E b \in BOOLEAN, q \in Questions : SubmitAsk(b, q)
  \/ \E r \in EmbedResponses : EmbedReturns(r)
  \/ pc = "searching" /\ \E r \in SearchResponses(net[Len(net)]) : SearchReturns(r)
  \/ \E r \in ChatResponses : ChatReturns(r)
  \/ Rerun

NextConfig ==
  \/ LoadConfig
  \/ CheckKeys
  \/ ConstructClients

Spec == Init /\ [][Next]_vars

SpecConfig == InitConfig /\ [][NextConfig]_vars

(***************************************************************************)
(* Reading the traffic of a script run.                                    *)
(***************************************************************************)
Kinds(log) == [i \in 1..Len(log) |-> log[i].kind]
Pipeline == <<"embed", "response", "search", "response", "generate", "response">>
IsPrefix(a, b) == Len(a) <= Len(b) /\ a = SubSeq(b, 1, Len(a))
\* the chat request has been sent: lines 51-66 have built the prompt
Built == Len(net) >= 5
\* the response has no embedding, no choice, no message content or no metadata
Malformed(r) ==
  /\ r.ok
  /\ \/ "data" \in DOMAIN r /\ r.data = <<>>
     \/ "choices" \in DOMAIN r /\ r.choices = <<>>
     \/ "choices" \in DOMAIN r /\ r.choices # <<>> /\ r.choices[1].message.content.t = "none"
     \/ "matches" \in DOMAIN r /\ \E i \in 1..Len(r.matches) : r.matches[i].metadata.t = "none"
Failed(r) == r.kind = "response" /\ (~r.ok \/ Malformed(r))

(***************************************************************************)
(* C1: a submission of a non-blank question in which no call fails sends   *)
(* exactly one embedding request, then one search request, then one chat   *)
(* request; the search request carries the vector the embedding call       *)
(* returned and the chat request carries the prompt built from the matches *)
(* the search returned.  At every moment the traffic is a prefix of that   *)
(* sequence.                                                               *)
(***************************************************************************)
C1_OneCallEachInOrder ==
  /\ IsPrefix(Kinds(net), Pipeline)
  /\ (pc = "done" /\ ui.kind = "answer") =>
       /\ Kinds(net) = Pipeline
       /\ Strip(question) # <<>>
       /\ net[1].input = question
       /\ net[3].vector = net[2].data[1].embedding
       /\ net[5].messages[1].content =
            BuildPrompt(ContextText(ContextChunks(net[4].matches)), question)
  /\ (pc \in {"embedding", "searching", "generating"}) =>
       net[Len(net)].kind = CASE pc = "embedding" -> "embed"
                              [] pc = "searching" -> "search"
                              [] pc = "generating" -> "generate"

C1_Witness ==
  /\ pc = "done"
  /\ ui.kind = "answer"
  /\ net[2].data[1].embedding = "vecB"
  /\ Len(net[4].matches) = 2

(***************************************************************************)
(* C2: a submission (the button is clicked) of an empty or whitespace-only *)
(* question ends the script run with no request sent and nothing shown,    *)
(* whatever happened in earlier runs.                                      *)
(***************************************************************************)
C2_BlankQuestionIgnored ==
  (clicked /\ \A i \in 1..Len(question) : question[i] \in Whitespace) =>
    /\ pc = "done"
    /\ net = <<>>
    /\ ui.kind = "none"

C2_Witness ==
  /\ clicked
  /\ question = <<SP, NL>>
  /\ pc = "done"
  /\ everFailed

(***************************************************************************)
(* C3: when the embedding, search or chat call raises or answers with a    *)
(* malformed payload, the script run ends with the error message shown     *)
(* and the clients still there; after a failure the script is never in a   *)
(* crashed or halted state, so later questions are asked.                  *)
(***************************************************************************)
C3_ProviderErrorsCaught ==
  /\ (net # <<>> /\ Failed(net[Len(net)])) =>
       /\ pc = "done"
       /\ ui.kind = "error"
       /\ clients = {"pc", "index", "client"}
  /\ everFailed => pc \notin {"crashed", "halted"}

C3_Witness ==
  /\ everFailed
  /\ pc = "done"
  /\ ui.kind = "answer"
  /\ Kinds(net) = Pipeline

(***************************************************************************)
(* C4: when, after lines 11-16, the Pinecone key or the OpenAI key is      *)
(* absent (None or empty), the script stops with a message on the page     *)
(* before any client exists; no question is read and no request is sent    *)
(* in that run.                                                            *)
(***************************************************************************)
KeyAbsent(v) == v.t = "none" \/ (v.t = "str" /\ v.s = <<>>)

C4_MissingKeyHalts ==
  (pc # "start" /\ (KeyAbsent(cfg.PINECONE_API_KEY) \/ KeyAbsent(cfg.OPENAI_API_KEY))) =>
    /\ pc \in {"check", "halted", "crashed"}
    /\ clients = {}
    /\ net = <<>>
    /\ ~clicked /\ question = <<>>
    /\ pc = "halted" => ui.kind = "configerror"
    /\ pc = "crashed" => ui.kind = "exception"

C4_Witness ==
  /\ pc = "halted"
  /\ ui.kind = "configerror"
  /\ ~firstRun
  /\ ~KeyAbsent(cfg.PINECONE_API_KEY)
  /\ KeyAbsent(cfg.OPENAI_API_KEY)

(***************************************************************************)
(* C5: every search request asks for exactly TOP_K matches, and the        *)
(* context is built from at most TOP_K matches, whether the index holds    *)
(* more or fewer.                                                          *)
(***************************************************************************)
C5_AtMostTopK ==
  /\ \A i \in 1..Len(net) : net[i].kind = "search" => net[i].top_k = cfg.TOP_K.n
  /\ Built => Len(context_chunks) <= cfg.TOP_K.n

C5_Witness ==
  /\ Built
  /\ Len(context_chunks) = cfg.TOP_K.n
  /\ cfg.TOP_K.n < MaxMatches

(***************************************************************************)
(* C6: for the n matches the search returned, the context is the texts of  *)
(* the matches (the empty text for a match without a `text` field), in the *)
(* order returned, with the separator between neighbours: n segments and   *)
(* n-1 separators, each at its place.                                      *)
(***************************************************************************)
TextOf(m) == IF "text" \in DOMAIN m.metadata.d THEN m.metadata.d.text ELSE <<>>

RECURSIVE SegmentStart(_, _)
\* where the i-th segment starts in the context of the matches ms
SegmentStart(ms, i) ==
  IF i = 1 THEN 1
  ELSE SegmentStart(ms, i - 1) + Len(TextOf(ms[i - 1])) + Len(Separator)

C6_ContextIsOrderedJoin ==
  Built =>
    LET ms == net[4].matches
        n == Len(ms)
    IN /\ Len(context_chunks) = n
       /\ n = 0 => context_text = <<>>
       /\ n > 0 =>
            /\ Len(context_text) = SegmentStart(ms, n) + Len(TextOf(ms[n])) - 1
            /\ \A i \in 1..n :
                 SubSeq(context_text, SegmentStart(ms, i),
                        SegmentStart(ms, i) + Len(TextOf(ms[i])) - 1) = TextOf(ms[i])
            /\ \A i \in 1..(n - 1) :
                 SubSeq(context_text, SegmentStart(ms, i) + Len(TextOf(ms[i])),
                        SegmentStart(ms, i + 1) - 1) = Separator

C6_Witness ==
  /\ Built
  /\ Len(net[4].matches) = 2
  /\ "text" \notin DOMAIN net[4].matches[1].metadata.d
  /\ "text" \in DOMAIN net[4].matches[2].metadata.d
  /\ net[4].matches[2].metadata.d.text = <<"y">>
  /\ context_text = Separator \o <<"y">>

(***************************************************************************)
(* Reading a prompt.                                                       *)
(***************************************************************************)
\* the position of the first `word` in text, 0 when there is none
Find(text, word) ==
  IF \E i \in 1..Len(text) : text[i] = word
  THEN Min({i \in 1..Len(text) : text[i] = word})
  ELSE 0

\* the three headers are there, in the order of the template
HasSections(text) ==
  /\ 0 < Find(text, "### Context")
  /\ Find(text, "### Context") < Find(text, "### Question")
  /\ Find(text, "### Question") < Find(text, "### Answer")

\* what stands between the line of header `from` and the line of header
\* `to`: the body of the section, the empty line after it, and the
\* indentation of the next header
Between(text, from, to) ==
  SubSeq(text, Find(text, from) + 2, Find(text, to) - 1)

\* `region` is `body`, on a line indented by at most the template's
\* indentation, then the empty line and the next header's indentation
HoldsVerbatim(region, body) ==
  \E k1, k2 \in 0..IndentWidth : region = Spaces(k1) \o body \o <<NL, NL>> \o Spaces(k2)

(***************************************************************************)
(* C7: when the search returns no match, the context is the empty string,  *)
(* the prompt still has its Context, Question and Answer sections, with    *)
(* nothing in the Context section, and the chat request is still sent,     *)
(* once, with that prompt; an empty result alone never ends the run in an  *)
(* error.                                                                  *)
(***************************************************************************)
NoMatch == Len(net) >= 4 /\ net[4].ok /\ net[4].matches = <<>>

C7_EmptyResultStillAsked ==
  NoMatch =>
    /\ Built
    /\ context_chunks = <<>>
    /\ context_text = <<>>
    /\ HasSections(prompt)
    /\ Between(prompt, "### Context", "### Question") \in
         {<<NL, NL>> \o Spaces(k) : k \in 0..IndentWidth}
    /\ net[5].kind = "generate"
    /\ net[5].messages = <<[role |-> "user", content |-> prompt]>>
    /\ Cardinality({i \in 1..Len(net) : net[i].kind = "generate"}) = 1
    /\ ui.kind = "error" => (Len(net) = 6 /\ Failed(net[6]))

C7_Witness ==
  /\ NoMatch
  /\ pc = "done"
  /\ ui.kind = "answer"
  /\ question = <<"a", NL, "a">>

(***************************************************************************)
(* C8: the prompt sent to the chat call holds the context and the question *)
(* character for character, each in its section of the template, and the   *)
(* embedding request carries the question as typed.                        *)
(***************************************************************************)
C8_PromptVerbatim ==
  /\ (net # <<>>) => net[1].input = question
  /\ Built =>
       /\ HasSections(prompt)
       /\ HoldsVerbatim(Between(prompt, "### Context", "### Question"), context_text)
       /\ HoldsVerbatim(Between(prompt, "### Question", "### Answer"), question)

(***************************************************************************)
(* C9: after lines 11-16, TOP_K is an integer >= 1, and it is the top_k of *)
(* every search request.                                                   *)
(***************************************************************************)
C9_TopKPositive ==
  /\ pc \notin {"start", "crashed"} => cfg.TOP_K.n >= 1
  /\ \A i \in 1..Len(net) : net[i].kind = "search" => net[i].top_k = cfg.TOP_K.n

(***************************************************************************)
(* C10: each configuration name holds the secret store's value when the    *)
(* store has the key, else the environment variable's value when it is     *)
(* set, else the default ("aquestia", "v1", "text-embedding-3-large", 20;  *)
(* none for the two API keys); TOP_K holds that value passed through       *)
(* int(), and the script crashes exactly when int() rejects it.  An API    *)
(* key that only the environment holds keeps the script from halting.      *)
(***************************************************************************)
ClaimedDefault(key) ==
  CASE key = "INDEX_NAME" -> Str(<<"aquestia">>)
    [] key = "NAMESPACE" -> Str(<<"v1">>)
    [] key = "EMBED_MODEL" -> Str(<<"text-embedding-3-large">>)
    [] key = "TOP_K" -> Int_(20)
    [] key \in {"PINECONE_API_KEY", "OPENAI_API_KEY"} -> None

Layered(key) ==
  IF key \in DOMAIN secrets THEN secrets[key]
  ELSE IF key \in DOMAIN environ THEN environ[key]
  ELSE ClaimedDefault(key)

ApiKeys == {"PINECONE_API_KEY", "OPENAI_API_KEY"}

C10_LayeredResolution ==
  pc # "start" =>
    /\ \A k \in Keys \ {"TOP_K"} : cfg[k] = Layered(k)
    /\ PyInt(Layered("TOP_K")).ok => cfg.TOP_K = Int_(PyInt(Layered("TOP_K")).n)
    /\ (pc = "crashed") <=> ~PyInt(Layered("TOP_K")).ok
    /\ (pc = "halted") => \E k \in ApiKeys : ~Truthy(Layered(k))
    /\ (pc \in {"clients", "main"}) => \A k \in ApiKeys : Truthy(Layered(k))

C10_Witness ==
  /\ pc = "main"
  /\ "OPENAI_API_KEY" \notin DOMAIN secrets
  /\ cfg.OPENAI_API_KEY = Str(<<"sk-env">>)
  /\ "INDEX_NAME" \in DOMAIN secrets /\ "INDEX_NAME" \in DOMAIN environ
  /\ cfg.INDEX_NAME = Str(<<"from-secrets">>)
  /\ "NAMESPACE" \notin DOMAIN secrets /\ "NAMESPACE" \notin DOMAIN environ
  /\ "TOP_K" \notin DOMAIN secrets /\ "TOP_K" \in DOMAIN environ
  /\ environ["TOP_K"] = Str(<<SP, "1", "2", NL>>)
  /\ cfg.TOP_K = Int_(12)

====
